---- MODULE Spec2Model ----
(***************************************************************************)
(* Email/password authentication service: the three register/login code    *)
(* paths (REST adapter rest.rs, gRPC adapter rpc/auth.rs, AppError-based    *)
(* handlers handlers/auth.rs) over one users table and one signing key.     *)
(*                                                                         *)
(* A handler is a Rust async fn.  Each of its .await points is one round   *)
(* trip to the users table: the call takes effect on the table while the   *)
(* task is suspended, and what follows (the next call, or the answer) runs  *)
(* at a later poll, after other requests and the clock may have moved, or  *)
(* never, when the future is dropped.  A handler is therefore one action   *)
(* per store call plus one for its answer, with the request in flight in   *)
(* between.  main.rs mounts the REST and the gRPC adapter only; the        *)
(* handlers module is not part of the serving process and has a            *)
(* specification of its own.                                               *)
(***************************************************************************)
EXTENDS Integers, Sequences, FiniteSets, Bags, TLC

(* ------------------------------ bounds -------------------------------- *)

\* Largest value of the wall clock (seconds since the epoch).
MaxTime == 1

\* Largest number of requests received in one run.
MaxCalls == 2

\* Inputs of the requests.
Emails == {"a@x.com", "b@x.com"}

Passwords == {"pw1", "pw2"}

\* Salts the OS random generator may hand out.
Salts == {"s1"}

\* What the environment can make fail during one handler step: nothing, the
\* store call (any sqlx error other than a constraint violation), the password
\* hasher, the token signer, or the addition of the horizon to the clock
\* (chrono's checked_add_signed returning None).
Faults == {"none", "db", "hash", "sign", "time"}

(* --------------------------- program constants ------------------------ *)

RestHorizonDays == 7

GrpcHorizonHours == 24

HandlerHorizonHours == 24

\* chrono::Duration::days / ::hours, in seconds (timestamp() is in seconds).
DurationDays(n) == n * 86400

DurationHours(n) == n * 3600

VARIABLES
    users,          \* the users table, rows in insertion order
    now,            \* the wall clock, chrono::Utc::now().timestamp()
    encoding_key,   \* AppState.encoding_key
    inflight,       \* bag of requests suspended at a store call
    out,            \* the response most recently returned to a caller
    acked,          \* the Register calls answered with success, and their rows
    main,           \* where main() is, the pool, the two servers, the signal
    created,        \* the Register calls whose INSERT added a row, and the row
    calls           \* number of requests received

vars ==
    <<users, now, encoding_key, inflight, out, acked, main, created, calls>>

(* ------------------------------ hashing -------------------------------- *)

\* Argon2id output for a password and a salt.  The digest is modelled by its
\* preimage: equal digests iff equal password and salt.
Argon2Digest(p, salt) == <<p, salt>>

\* Argon2::default().hash_password(p, salt).to_string(): the PHC string
\* $argon2id$v=19$m=19456,t=2,p=1$salt$digest, as the tuple of its fields.
HashToString(p, salt) ==
    <<"argon2id", "v=19", "m=19456,t=2,p=1", salt, Argon2Digest(p, salt)>>

\* A stored password_hash that is no PHC string (a row written or damaged
\* outside this program).
MalformedHash == <<"not-a-phc-string">>

\* PasswordHash::new(s): Ok iff s splits into the five PHC fields.
ParseOk(s) == Len(s) = 5 /\ s[1] = "argon2id"

ParsedSalt(s) == s[4]

ParsedDigest(s) == s[5]

\* Mutant of VerifyPassword: the result of the comparison is not looked at.
VerifyPassword_Always(p, s) == TRUE

\* Argon2::verify_password(p, parsed): recompute with the stored salt, compare.
VerifyPassword(p, s) == Argon2Digest(p, ParsedSalt(s)) = ParsedDigest(s)

(* ------------------------------- store --------------------------------- *)

\* SELECT ... FROM users WHERE email = ?  : the matching rows, in table order.
SelectByEmail(us, e) == SelectSeq(us, LAMBDA u : u.email = e)

\* SELECT COUNT(*) FROM users WHERE email = ?
CountByEmail(us, e) == Len(SelectByEmail(us, e))

\* Mutant of UniqueViolation: the table has no uniqueness constraint.
UniqueViolation_None(us, e) == FALSE

\* The table's UNIQUE constraint on email: would inserting e violate it?
UniqueViolation(us, e) == \E i \in DOMAIN us : us[i].email = e

\* The generated primary key of the next row.
NextId(us) == Len(us) + 1

\* The row INSERT INTO users (email, password_hash) VALUES (?, ?) creates;
\* id and created_at are filled in by the table's defaults.
NewRow(us, e, h, t) ==
    [id |-> NextId(us), email |-> e, password_hash |-> h, created_at |-> t]

\* Outcome of the INSERT: "Err" (any other sqlx error), "Unique" (constraint
\* violation) or "Ok".
InsertResult(us, e, f) ==
    IF f = "db" THEN "Err"
    ELSE IF UniqueViolation(us, e) THEN "Unique"
    ELSE "Ok"

\* Mutant of InsertInto: INSERT OR REPLACE, which overwrites the row of an
\* email that is already stored.
InsertInto_OrReplace(us, e, h, t, f) ==
    IF InsertResult(us, e, f) = "Ok" THEN Append(us, NewRow(us, e, h, t))
    ELSE IF InsertResult(us, e, f) = "Unique"
    THEN [i \in DOMAIN us |->
            IF us[i].email = e
            THEN [us[i] EXCEPT !.password_hash = h, !.created_at = t]
            ELSE us[i]]
    ELSE us

\* The table after the INSERT.
InsertInto(us, e, h, t, f) ==
    IF InsertResult(us, e, f) = "Ok" THEN Append(us, NewRow(us, e, h, t)) ELSE us

\* Outcome of fetch_optional: "Err", "None" or "Some".
LookupResult(us, e, f) ==
    IF f = "db" THEN "Err"
    ELSE IF SelectByEmail(us, e) = <<>> THEN "None"
    ELSE "Some"

\* The row fetch_optional returned (the first match).
LookupRow(us, e) == Head(SelectByEmail(us, e))

(* ------------------------------- tokens -------------------------------- *)

\* EncodingKey::from_ed_pem(include_bytes!("../keys/private.pem")).
EdPrivateKey == [family |-> "Ed", material |-> "keys/private.pem"]

\* AppState not built yet: no key.
NoKey == [family |-> "none", material |-> ""]

\* EncodingKey::from_secret("secret".as_ref()).
HmacSecretKey == [family |-> "Hmac", material |-> "secret"]

\* The key family a JWT algorithm signs with.
AlgFamily(alg) == IF alg = "EdDSA" THEN "Ed" ELSE "Hmac"

\* Header::new(Algorithm::EdDSA).
HeaderEdDSA == "EdDSA"

\* Header::default(): HS256.
HeaderDefault == "HS256"

\* jsonwebtoken::encode fails when the signer fails or when the key is not of
\* the header algorithm's family.
EncodeOk(alg, key, f) == f # "sign" /\ AlgFamily(alg) = key.family

\* jsonwebtoken::encode(header, claims, key): header, payload and the
\* signature of both under the key.
Encode(alg, claims, key) ==
    [alg |-> alg, claims |-> claims, signed_with |-> key]

\* Claims { sub, exp }.
Claims(sub, exp) == [sub |-> sub, exp |-> exp]

\* i64::to_string of a row id.
IdToString(id) == ToString(id)

\* The three expirations.  The cast `as usize` leaves a non-negative
\* timestamp as it is, and the clock never goes below 0.
RestExpiration(t) == t + DurationDays(RestHorizonDays)

GrpcExpiration(t) == t + DurationHours(GrpcHorizonHours)

HandlerExpiration(t) == t + DurationHours(HandlerHorizonHours)

(* ------------------------------ responses ------------------------------ *)

\* Display text of the errors the libraries return.
SqlxUniqueText ==
    "error returned from database: UNIQUE constraint failed: users.email"

SqlxOtherText == "pool timed out while waiting for an open connection"

PasswordHashParseText == "password hash string missing field"

PasswordHashCryptoText == "cryptographic error"

JwtErrorText == "InvalidAlgorithm"

SqlxText(r) == IF r = "Unique" THEN SqlxUniqueText ELSE SqlxOtherText

\* One shape for every response: the status (an HTTP status for REST and the
\* handlers, a tonic code for gRPC), the message or error text of the body,
\* the success flag of the body when it has one, the token and the user of
\* the body when it has one (as sequences of length 0 or 1).
Response(code, message, success, token, user) ==
    [code |-> code, message |-> message, success |-> success,
     token |-> token, user |-> user]

\* rest.rs: (StatusCode, Json(ErrorResponse { error })).
RestError(code, error) == Response(code, error, "absent", <<>>, <<>>)

\* rest.rs: (StatusCode, Json(RegisterResponse { success, message })).
RestRegisterResponse(code, success, message) ==
    Response(code, message, success, <<>>, <<>>)

\* rest.rs: (StatusCode::OK, Json(LoginResponse { token, success, message })).
RestLoginResponse(token) ==
    Response("OK", "Login successful", "true", <<token>>, <<>>)

\* tonic::Status::internal(msg) / ::unauthenticated(msg).
StatusInternal(msg) == Response("Internal", msg, "absent", <<>>, <<>>)

StatusUnauthenticated(msg) ==
    Response("Unauthenticated", msg, "absent", <<>>, <<>>)

\* Ok(Response::new(LoginResponse { token, success, message })).
GrpcLoginResponse(token) ==
    Response("Ok", "Login successful", "true", <<token>>, <<>>)

\* Ok(Response::new(RegisterResponse { success, message })).
GrpcRegisterResponse ==
    Response("Ok", "User registered successfully", "true", <<>>, <<>>)

\* serde's view of User: password_hash is #[serde(skip)].
SerializeUser(u) == [id |-> u.id, email |-> u.email, created_at |-> u.created_at]

\* AppError values: the variant; for Sqlx, whether the database error is a
\* unique violation; for AuthError, its message.
AppErrorSqlx(r) == [variant |-> "Sqlx", unique |-> (r = "Unique"), msg |-> ""]

AppErrorPasswordHash ==
    [variant |-> "PasswordHash", unique |-> FALSE, msg |-> ""]

AppErrorJwt == [variant |-> "Jwt", unique |-> FALSE, msg |-> ""]

AppErrorLoginFail == [variant |-> "LoginFail", unique |-> FALSE, msg |-> ""]

AppErrorAuthError(msg) ==
    [variant |-> "AuthError", unique |-> FALSE, msg |-> msg]

\* impl IntoResponse for AppError.
AppErrorIntoResponse(err) ==
    IF err.variant = "Sqlx" THEN
        IF err.unique
        THEN Response("CONFLICT", "Email already exists", "absent", <<>>, <<>>)
        ELSE Response("INTERNAL_SERVER_ERROR", "Database error", "absent",
                      <<>>, <<>>)
    ELSE IF err.variant = "PasswordHash" THEN
        Response("INTERNAL_SERVER_ERROR", "Password hashing error", "absent",
                 <<>>, <<>>)
    ELSE IF err.variant = "Jwt" THEN
        Response("INTERNAL_SERVER_ERROR", "Token error", "absent", <<>>, <<>>)
    ELSE IF err.variant = "LoginFail" THEN
        Response("UNAUTHORIZED", "Invalid email or password", "absent",
                 <<>>, <<>>)
    ELSE Response("BAD_REQUEST", err.msg, "absent", <<>>, <<>>)

\* Ok(Json(user)) and Ok(Json(AuthResponse { token })).
HandlerRegisterResponse(u) ==
    Response("OK", "", "absent", <<>>, <<SerializeUser(u)>>)

HandlerLoginResponse(token) == Response("OK", "", "absent", <<token>>, <<>>)

(* ------------------------------- login --------------------------------- *)

\* Mutant of RestLoginNotFound: an unknown email gets an answer of its own.
RestLoginNotFound_Distinct == RestError("NOT_FOUND", "User not found")

\* A handler that panicked: the task unwinds and no response value is
\* returned; msg is the panic message.  (chrono's message for the overflow
\* of `+` sets the expression between backquotes, a character a TLA+ string
\* cannot hold; the text below is that message without them.)
Panicked(msg) == Response("panic", msg, "absent", <<>>, <<>>)

\* checked_add_signed(horizon) is Some.
ExpiryOk(f) == f # "time"

\* rest.rs login, the Ok(None) arm of the lookup.
RestLoginNotFound == RestError("UNAUTHORIZED", "Invalid credentials")

\* Mutant of RestLoginBadHash: an unparsable stored hash is answered like a
\* wrong password.
RestLoginBadHash_AsMismatch == RestError("UNAUTHORIZED", "Invalid credentials")

\* rest.rs login, the Err arm of PasswordHash::new.
RestLoginBadHash ==
    RestError("INTERNAL_SERVER_ERROR", "Internal server error")

\* rest.rs login, verify_password(..).is_err().
RestLoginMismatch == RestError("UNAUTHORIZED", "Invalid credentials")

\* rest.rs login.
RestLogin(us, e, p, t, key, f) ==
    IF LookupResult(us, e, f) = "None"
    THEN RestLoginNotFound
    ELSE IF LookupResult(us, e, f) = "Err"
    THEN RestError("INTERNAL_SERVER_ERROR", "Internal server error")
    ELSE IF ~ParseOk(LookupRow(us, e).password_hash)
    THEN RestLoginBadHash
    ELSE IF ~VerifyPassword(p, LookupRow(us, e).password_hash)
    THEN RestLoginMismatch
    ELSE IF ~ExpiryOk(f)
    THEN Panicked("DateTime + TimeDelta overflowed")
    ELSE IF ~EncodeOk(HeaderEdDSA, key, f)
    THEN RestError("INTERNAL_SERVER_ERROR", "Internal server error")
    ELSE RestLoginResponse(
            Encode(HeaderEdDSA,
                   Claims(IdToString(LookupRow(us, e).id), RestExpiration(t)),
                   key))

\* rpc/auth.rs AuthServiceImpl::login.
GrpcLogin(us, e, p, t, key, f) ==
    IF LookupResult(us, e, f) = "Err"
    THEN StatusInternal(SqlxText("Err"))
    ELSE IF LookupResult(us, e, f) = "None"
    THEN StatusUnauthenticated("Invalid credentials")
    ELSE IF ~ParseOk(LookupRow(us, e).password_hash)
    THEN StatusInternal(PasswordHashParseText)
    ELSE IF ~VerifyPassword(p, LookupRow(us, e).password_hash)
    THEN StatusUnauthenticated("Invalid credentials")
    ELSE IF ~ExpiryOk(f)
    THEN StatusInternal("valid timestamp")
    ELSE IF ~EncodeOk(HeaderEdDSA, key, f)
    THEN StatusInternal(JwtErrorText)
    ELSE GrpcLoginResponse(
            Encode(HeaderEdDSA,
                   Claims(LookupRow(us, e).email, GrpcExpiration(t)),
                   key))

\* handlers/auth.rs login; the AppError of a failing `?` goes through
\* IntoResponse.
HandlerLogin(us, e, p, t, f) ==
    IF LookupResult(us, e, f) = "Err"
    THEN AppErrorIntoResponse(AppErrorSqlx("Err"))
    ELSE IF LookupResult(us, e, f) = "None"
    THEN AppErrorIntoResponse(AppErrorLoginFail)
    ELSE IF ~ParseOk(LookupRow(us, e).password_hash)
    THEN AppErrorIntoResponse(AppErrorPasswordHash)
    ELSE IF ~VerifyPassword(p, LookupRow(us, e).password_hash)
    THEN AppErrorIntoResponse(AppErrorLoginFail)
    ELSE IF ~ExpiryOk(f)
    THEN Panicked("valid timestamp")
    ELSE IF ~EncodeOk(HeaderDefault, HmacSecretKey, f)
    THEN AppErrorIntoResponse(AppErrorJwt)
    ELSE HandlerLoginResponse(
            Encode(HeaderDefault,
                   Claims(LookupRow(us, e).email, HandlerExpiration(t)),
                   HmacSecretKey))

\* What encode returned to a login handler ("n/a": the handler returned
\* before signing); `alg` and `key` are the path's header and key.
SignerSeen(us, e, p, alg, key, f) ==
    IF LookupResult(us, e, f) # "Some" THEN "n/a"
    ELSE IF ~ParseOk(LookupRow(us, e).password_hash) THEN "n/a"
    ELSE IF ~VerifyPassword(p, LookupRow(us, e).password_hash) THEN "n/a"
    ELSE IF ~ExpiryOk(f) THEN "n/a"
    ELSE IF EncodeOk(alg, key, f) THEN "Ok"
    ELSE "Err"

\* What the addition of the horizon returned to a login handler ("n/a": the
\* handler returned before it).
ExpirySeen(us, e, p, f) ==
    IF LookupResult(us, e, f) # "Some" THEN "n/a"
    ELSE IF ~ParseOk(LookupRow(us, e).password_hash) THEN "n/a"
    ELSE IF ~VerifyPassword(p, LookupRow(us, e).password_hash) THEN "n/a"
    ELSE IF ExpiryOk(f) THEN "Ok"
    ELSE "Err"

\* Login on a named path.
Login(path, us, e, p, t, key, f) ==
    IF path = "rest" THEN RestLogin(us, e, p, t, key, f)
    ELSE IF path = "grpc" THEN GrpcLogin(us, e, p, t, key, f)
    ELSE HandlerLogin(us, e, p, t, f)

(* ------------------------------ register -------------------------------- *)

\* rest.rs register, the match on the INSERT's result r.
RestRegisterAfterInsert(r) ==
    IF r = "Ok"
    THEN RestRegisterResponse("CREATED", "true", "Registration successful")
    ELSE RestRegisterResponse("INTERNAL_SERVER_ERROR", "false",
                              "Internal server error")

\* rest.rs register, the Err arm of hash_password.
RestRegisterHashFailed ==
    RestRegisterResponse("INTERNAL_SERVER_ERROR", "false",
                         "Internal server error")

\* rest.rs register, from the hashing on: `existing` was read earlier.
RestRegisterFinish(us, e, f) ==
    IF f = "hash" THEN RestRegisterHashFailed
    ELSE RestRegisterAfterInsert(InsertResult(us, e, f))

\* rest.rs register, the early return when the COUNT came back positive.
RestRegisterExists ==
    RestRegisterResponse("CONFLICT", "false", "User already exists")

\* rest.rs register run without another request between its COUNT and its
\* INSERT, the COUNT itself answered: the response, and the table afterwards.
RestRegister(us, e, f) ==
    IF CountByEmail(us, e) > 0 THEN RestRegisterExists
    ELSE RestRegisterFinish(us, e, f)

RestStoreAfterRegister(us, e, h, t, f) ==
    IF CountByEmail(us, e) > 0 THEN us
    ELSE IF f = "hash" THEN us
    ELSE InsertInto(us, e, h, t, f)

\* rpc/auth.rs register, after fetch_one(..).await: r is the INSERT's result.
GrpcRegisterAfterInsert(r) ==
    IF r # "Ok" THEN StatusInternal(SqlxText(r)) ELSE GrpcRegisterResponse

\* rpc/auth.rs register, the map_err of hash_password.
GrpcRegisterHashFailed == StatusInternal(PasswordHashCryptoText)

\* rpc/auth.rs AuthServiceImpl::register.
GrpcRegister(us, e, f) ==
    IF f = "hash" THEN GrpcRegisterHashFailed
    ELSE GrpcRegisterAfterInsert(InsertResult(us, e, f))

\* handlers/auth.rs register, after fetch_one(..).await?: r is the INSERT's
\* result and rows the row it returned.
HandlerRegisterAfterInsert(r, rows) ==
    IF r # "Ok" THEN AppErrorIntoResponse(AppErrorSqlx(r))
    ELSE HandlerRegisterResponse(Head(rows))

\* handlers/auth.rs register, the `?` on hash_password.
HandlerRegisterHashFailed == AppErrorIntoResponse(AppErrorPasswordHash)

\* handlers/auth.rs register.
HandlerRegister(us, e, h, t, f) ==
    IF f = "hash" THEN HandlerRegisterHashFailed
    ELSE HandlerRegisterAfterInsert(InsertResult(us, e, f),
                                    <<NewRow(us, e, h, t)>>)

\* The table after a register's INSERT step: nothing is inserted when the
\* hasher failed first.
StoreAfterRegister(us, e, h, t, f) ==
    IF f = "hash" THEN us ELSE InsertInto(us, e, h, t, f)

(* ------------------------------- state --------------------------------- *)

\* A row with an unparsable password_hash.  The table outlives the process
\* and both login paths handle PasswordHash::new failing, so a table holding
\* such a row is a state the program can be started in.
DamagedRow ==
    [id |-> 1, email |-> "b@x.com", password_hash |-> MalformedHash,
     created_at |-> 0]

\* The tables the process may find at startup.
InitialTables == {<<>>, <<DamagedRow>>}

\* `out` before any response was returned.
NoResponse ==
    [path |-> "none", op |-> "none", email |-> "", password |-> "",
     existing |-> "n/a", lookup |-> "n/a", hasher |-> "n/a",
     insert |-> "n/a", expiry |-> "n/a", signer |-> "n/a", trips |-> 0,
     at |-> 0, resp |-> Response("none", "", "absent", <<>>, <<>>)]

\* The store calls a register handler awaited: the COUNT when it ran one, the
\* INSERT when it got to it.
RegisterTrips(existing, insert) ==
    (IF existing = "n/a" THEN 0 ELSE 1) + (IF insert = "n/a" THEN 0 ELSE 1)

\* A register's response with what the handler got from its collaborators
\* on the way: the COUNT (`existing`), the hasher, the INSERT; the number of
\* store calls it awaited; and the clock when it answered.
ReturnedRegister(path, e, p, existing, hasher, insert, t, resp) ==
    [path |-> path, op |-> "register", email |-> e, password |-> p,
     existing |-> existing, lookup |-> "n/a", hasher |-> hasher,
     insert |-> insert, expiry |-> "n/a", signer |-> "n/a",
     trips |-> RegisterTrips(existing, insert), at |-> t, resp |-> resp]

\* A login's response with what the handler got from fetch_optional, from
\* the addition of the horizon and from encode; its one store call; and the
\* clock when it answered.
ReturnedLogin(path, e, p, lookup, expiry, signer, t, resp) ==
    [path |-> path, op |-> "login", email |-> e, password |-> p,
     existing |-> "n/a", lookup |-> lookup, hasher |-> "n/a",
     insert |-> "n/a", expiry |-> expiry, signer |-> signer, trips |-> 1,
     at |-> t, resp |-> resp]

\* main() at its first line: no pool, nothing bound, no signal seen.
Starting ==
    [pc |-> "connect", db |-> "none", rest |-> "unbound", grpc |-> "unbuilt",
     signal |-> FALSE]

\* main() inside its select!, both servers accepting requests.
Serving ==
    [pc |-> "select", db |-> "pool", rest |-> "serving", grpc |-> "serving",
     signal |-> FALSE]

\* The process once main() has reached its select!.
Init ==
    /\ users \in InitialTables
    /\ now = 0
    /\ encoding_key = EdPrivateKey
    /\ inflight = EmptyBag
    /\ out = NoResponse
    /\ acked = {}
    /\ main = Serving
    /\ created = {}
    /\ calls = 0

\* `existing` of rest.rs register: the COUNT failed, or was 0, or was positive.
ExistingResult(us, e, f) ==
    IF f = "db" THEN "Err"
    ELSE IF CountByEmail(us, e) > 0 THEN "Positive"
    ELSE "Zero"

\* The status of a success, on either transport.
IsSuccess(resp) == resp.code \in {"OK", "CREATED", "Ok"}

\* A request suspended at a store call, with what its calls returned so far:
\* the COUNT (`existing`), the SELECT (`lookup`, and its rows), the INSERT
\* (`insert`, and the row it added).
Pending(path, op, e, p, existing, lookup, insert, rows) ==
    [path |-> path, op |-> op, email |-> e, password |-> p,
     existing |-> existing, lookup |-> lookup, insert |-> insert,
     rows |-> rows]

\* The row an INSERT added, as a sequence: empty when it added none.
InsertedRows(us, e, h, t, f) ==
    IF InsertResult(us, e, f) = "Ok" THEN <<NewRow(us, e, h, t)>> ELSE <<>>

\* The rows fetch_optional returned, as a sequence: empty for None and Err.
LookupRows(us, e, f) ==
    IF LookupResult(us, e, f) = "Some" THEN <<LookupRow(us, e)>> ELSE <<>>

\* A set of Register calls with the call for (e, p) added when it has a row.
WithRegister(set, e, p, rows) ==
    IF rows = <<>> THEN set
    ELSE set \cup {[email |-> e, password |-> p, row |-> Head(rows)]}

\* `acked` after a Register call for (e, p) that added `rows` was answered
\* with resp.
AckedAfter(ak, e, p, rows, resp) ==
    IF IsSuccess(resp) THEN WithRegister(ak, e, p, rows) ELSE ak

\* The header and the key a path signs with; key is AppState.encoding_key.
PathHeader(path) == IF path = "handler" THEN HeaderDefault ELSE HeaderEdDSA

PathKey(path, key) == IF path = "handler" THEN HmacSecretKey ELSE key

\* The answers of register on a named path.
RegisterHashFailed(path) ==
    IF path = "rest" THEN RestRegisterHashFailed
    ELSE IF path = "grpc" THEN GrpcRegisterHashFailed
    ELSE HandlerRegisterHashFailed

RegisterAfterInsert(path, r, rows) ==
    IF path = "rest" THEN RestRegisterAfterInsert(r)
    ELSE IF path = "grpc" THEN GrpcRegisterAfterInsert(r)
    ELSE HandlerRegisterAfterInsert(r, rows)

(* ------------------------------ actions -------------------------------- *)

\* The clock advances.
Tick ==
    /\ now < MaxTime
    /\ now' = now + 1
    /\ UNCHANGED <<users, encoding_key, inflight, out, acked, main, created,
                   calls>>

\* A request is received.
Received == calls < MaxCalls /\ calls' = calls + 1

\* `inflight` with request r replaced by request q.
Resumed(r, q) == (inflight (-) SetToBag({r})) (+) SetToBag({q})

\* POST /api/auth/register, up to its first .await: the COUNT query.
RestRegisterCheck ==
    \E e \in Emails, p \in Passwords, f \in {"none", "db"} :
        /\ Received
        /\ inflight' = inflight (+) SetToBag(
                {Pending("rest", "register", e, p,
                         ExistingResult(users, e, f), "n/a", "n/a", <<>>)})
        /\ UNCHANGED <<users, now, encoding_key, out, acked, main, created>>

\* POST /api/auth/register, from the COUNT's result to the second .await:
\* the early 409, the hashing, the INSERT.
RestRegisterInsert ==
    \E r \in BagToSet(inflight), salt \in Salts, f \in {"none", "db", "hash"} :
        /\ r.path = "rest" /\ r.op = "register" /\ r.insert = "n/a"
        /\ IF r.existing = "Positive"
           THEN /\ out' = ReturnedRegister("rest", r.email, r.password,
                            r.existing, "n/a", "n/a", now, RestRegisterExists)
                /\ inflight' = inflight (-) SetToBag({r})
                /\ UNCHANGED <<users, created>>
           ELSE IF f = "hash"
           THEN /\ out' = ReturnedRegister("rest", r.email, r.password,
                            r.existing, "Err", "n/a", now,
                            RestRegisterHashFailed)
                /\ inflight' = inflight (-) SetToBag({r})
                /\ UNCHANGED <<users, created>>
           ELSE /\ users' = StoreAfterRegister(users, r.email,
                                HashToString(r.password, salt), now, f)
                /\ inflight' = Resumed(r,
                      [r EXCEPT !.insert = InsertResult(users, r.email, f),
                                !.rows = InsertedRows(users, r.email,
                                           HashToString(r.password, salt),
                                           now, f)])
                /\ created' = WithRegister(created, r.email, r.password,
                                InsertedRows(users, r.email,
                                    HashToString(r.password, salt), now, f))
                /\ UNCHANGED out
        /\ UNCHANGED <<now, encoding_key, acked, main, calls>>

\* Register on the gRPC or the handlers path, up to its .await: the hashing
\* and the INSERT; a failing hasher is answered at once.
RegisterCallOn(path) ==
    \E e \in Emails, p \in Passwords, salt \in Salts,
       f \in {"none", "db", "hash"} :
        /\ Received
        /\ IF f = "hash"
           THEN /\ out' = ReturnedRegister(path, e, p, "n/a", "Err", "n/a",
                                           now, RegisterHashFailed(path))
                /\ UNCHANGED <<users, inflight, created>>
           ELSE /\ users' = StoreAfterRegister(users, e,
                                HashToString(p, salt), now, f)
                /\ inflight' = inflight (+) SetToBag(
                      {Pending(path, "register", e, p, "n/a", "n/a",
                               InsertResult(users, e, f),
                               InsertedRows(users, e, HashToString(p, salt),
                                            now, f))})
                /\ created' = WithRegister(created, e, p,
                                InsertedRows(users, e, HashToString(p, salt),
                                             now, f))
                /\ UNCHANGED out
        /\ UNCHANGED <<now, encoding_key, acked, main>>

\* Register on any path, after the INSERT's .await: the answer.
RegisterAnswerOn(path) ==
    \E r \in BagToSet(inflight) :
        /\ r.path = path /\ r.op = "register" /\ r.insert # "n/a"
        /\ out' = ReturnedRegister(path, r.email, r.password, r.existing,
                        "Ok", r.insert, now,
                        RegisterAfterInsert(path, r.insert, r.rows))
        /\ acked' = AckedAfter(acked, r.email, r.password, r.rows,
                        RegisterAfterInsert(path, r.insert, r.rows))
        /\ inflight' = inflight (-) SetToBag({r})
        /\ UNCHANGED <<users, now, encoding_key, main, created, calls>>

\* Login on any path, up to its .await: the SELECT.
LoginCallOn(path) ==
    \E e \in Emails, p \in Passwords, f \in {"none", "db"} :
        /\ Received
        /\ inflight' = inflight (+) SetToBag(
                {Pending(path, "login", e, p, "n/a",
                         LookupResult(users, e, f), "n/a",
                         LookupRows(users, e, f))})
        /\ UNCHANGED <<users, now, encoding_key, out, acked, main, created>>

\* The failure a resumed login meets: the one its SELECT met, or f.
LoginFault(r, f) == IF r.lookup = "Err" THEN "db" ELSE f

\* Login on any path, after the SELECT's .await: parse, verify, read the
\* clock, sign, answer.  The rest of login reads the table through the rows
\* the SELECT returned and through nothing else, so they stand for it.
LoginAnswerOn(path) ==
    \E r \in BagToSet(inflight), f \in {"none", "time", "sign"} :
        /\ r.path = path /\ r.op = "login"
        /\ out' = ReturnedLogin(path, r.email, r.password, r.lookup,
                     ExpirySeen(r.rows, r.email, r.password, LoginFault(r, f)),
                     SignerSeen(r.rows, r.email, r.password, PathHeader(path),
                                PathKey(path, encoding_key), LoginFault(r, f)),
                     now,
                     Login(path, r.rows, r.email, r.password, now,
                           encoding_key, LoginFault(r, f)))
        /\ inflight' = inflight (-) SetToBag({r})
        /\ UNCHANGED <<users, now, encoding_key, acked, main, created, calls>>

RestRegisterAnswer == RegisterAnswerOn("rest")

GrpcRegisterCall == RegisterCallOn("grpc")

GrpcRegisterAnswer == RegisterAnswerOn("grpc")

HandlerRegisterCall == RegisterCallOn("handler")

HandlerRegisterAnswer == RegisterAnswerOn("handler")

RestLoginCall == LoginCallOn("rest")

RestLoginAnswer == LoginAnswerOn("rest")

GrpcLoginCall == LoginCallOn("grpc")

GrpcLoginAnswer == LoginAnswerOn("grpc")

HandlerLoginCall == LoginCallOn("handler")

HandlerLoginAnswer == LoginAnswerOn("handler")

\* The future of a suspended request is dropped (its connection went away):
\* what its store calls did stays, and it never answers.
DropRequest ==
    \E r \in BagToSet(inflight) :
        /\ inflight' = inflight (-) SetToBag({r})
        /\ UNCHANGED <<users, now, encoding_key, out, acked, main, created,
                       calls>>

\* A request arrives on a transport main() serves, and runs to its first
\* store call.
Arrive ==
    \/ RestRegisterCheck
    \/ GrpcRegisterCall
    \/ RestLoginCall
    \/ GrpcLoginCall

\* A suspended request of the serving process is resumed.
Resume ==
    \/ RestRegisterInsert
    \/ RestRegisterAnswer
    \/ GrpcRegisterAnswer
    \/ RestLoginAnswer
    \/ GrpcLoginAnswer

\* Requests on both transports, interleaved at their store calls, as time
\* passes.
Next == Arrive \/ Resume \/ DropRequest \/ Tick

Spec == Init /\ [][Next]_vars

\* A sequential run: a request arrives only when none is in flight.
NextSeq ==
    \/ inflight = EmptyBag /\ RestRegisterCheck
    \/ inflight = EmptyBag /\ GrpcRegisterCall
    \/ inflight = EmptyBag /\ RestLoginCall
    \/ inflight = EmptyBag /\ GrpcLoginCall
    \/ RestRegisterInsert
    \/ RestRegisterAnswer
    \/ GrpcRegisterAnswer
    \/ RestLoginAnswer
    \/ GrpcLoginAnswer
    \/ DropRequest
    \/ Tick

SpecSeq == Init /\ [][NextSeq]_vars

\* Concurrent requests within one tick of the clock.
NextRace ==
    \/ RestRegisterCheck
    \/ GrpcRegisterCall
    \/ RestLoginCall
    \/ GrpcLoginCall
    \/ RestRegisterInsert
    \/ RestRegisterAnswer
    \/ GrpcRegisterAnswer
    \/ RestLoginAnswer
    \/ GrpcLoginAnswer
    \/ DropRequest

SpecRace == Init /\ [][NextRace]_vars

\* The handlers module (handlers/auth.rs with error.rs) served on its own:
\* main.rs does not declare it, so these are runs of its two functions over
\* a users table, not of the process main() starts.
NextHandlers ==
    \/ HandlerRegisterCall
    \/ HandlerRegisterAnswer
    \/ HandlerLoginCall
    \/ HandlerLoginAnswer
    \/ DropRequest
    \/ Tick

SpecHandlers == Init /\ [][NextHandlers]_vars

(* ------------------------------- main() -------------------------------- *)

\* main() after SqlitePoolOptions::connect(..).await.expect(..): the pool,
\* or the panic of expect.
AfterConnect_Ignore(m, ok) ==
    [m EXCEPT !.pc = "load_key", !.db = IF ok THEN "pool" ELSE "none"]

AfterConnect(m, ok) ==
    IF ok THEN [m EXCEPT !.pc = "load_key", !.db = "pool"]
    ELSE [m EXCEPT !.pc = "panicked"]

\* main() after EncodingKey::from_ed_pem(..).expect(..).
AfterLoadKey(m, ok) ==
    IF ok THEN [m EXCEPT !.pc = "bind_rest"] ELSE [m EXCEPT !.pc = "panicked"]

\* main() after TcpListener::bind(rest_addr).await? : the listener, or the
\* error returned from main by `?`.
AfterBindRest(m, ok) ==
    IF ok THEN [m EXCEPT !.pc = "enter_select", !.rest = "bound"]
    ELSE [m EXCEPT !.pc = "returned"]

\* main() once select! has polled both futures: axum::serve accepts on the
\* listener; the gRPC server binds its address and serves, or has finished
\* with the bind error.
AfterEnterSelect(m, grpc_bound) ==
    [m EXCEPT !.pc = "select", !.rest = "serving",
              !.grpc = IF grpc_bound THEN "serving" ELSE "finished"]

\* select! has a branch to complete with: one of the two futures is ready.
SelectReady_Both(m) == m.rest = "finished" /\ m.grpc = "finished"

SelectReady(m) == m.rest = "finished" \/ m.grpc = "finished"

\* main() after select!: the branch that completed is handled, the other
\* future is dropped, and main returns Ok(()).
AfterSelect(m) ==
    [m EXCEPT !.pc = "returned",
              !.rest = IF m.rest = "finished" THEN "finished" ELSE "dropped",
              !.grpc = IF m.grpc = "finished" THEN "finished" ELSE "dropped"]

\* The process at the first line of main().
InitMain ==
    /\ users \in InitialTables
    /\ now = 0
    /\ encoding_key = NoKey
    /\ inflight = EmptyBag
    /\ out = NoResponse
    /\ acked = {}
    /\ main = Starting
    /\ created = {}
    /\ calls = 0

ConnectDb ==
    /\ main.pc = "connect"
    /\ \E ok \in BOOLEAN : main' = AfterConnect(main, ok)
    /\ UNCHANGED <<users, now, encoding_key, inflight, out, acked,
                   created, calls>>

LoadKey ==
    /\ main.pc = "load_key"
    /\ \E ok \in BOOLEAN :
         /\ main' = AfterLoadKey(main, ok)
         /\ encoding_key' = IF ok THEN EdPrivateKey ELSE NoKey
    /\ UNCHANGED <<users, now, inflight, out, acked,
                   created, calls>>

BindRest ==
    /\ main.pc = "bind_rest"
    /\ \E ok \in BOOLEAN : main' = AfterBindRest(main, ok)
    /\ UNCHANGED <<users, now, encoding_key, inflight, out, acked,
                   created, calls>>

EnterSelect ==
    /\ main.pc = "enter_select"
    /\ \E grpc_bound \in BOOLEAN : main' = AfterEnterSelect(main, grpc_bound)
    /\ UNCHANGED <<users, now, encoding_key, inflight, out, acked,
                   created, calls>>

\* Ctrl+C or SIGTERM while shutdown_signal() is being awaited: the gRPC
\* server stops accepting and drains.  Nothing awaits the signal for REST.
ShutdownSignal ==
    /\ main.pc = "select"
    /\ main.grpc = "serving"
    /\ main' = [main EXCEPT !.signal = TRUE, !.grpc = "draining"]
    /\ UNCHANGED <<users, now, encoding_key, inflight, out, acked,
                   created, calls>>

\* The draining gRPC server has no call left in progress; its future is
\* ready.
GrpcDrained ==
    /\ main.pc = "select"
    /\ main.grpc = "draining"
    /\ \A r \in BagToSet(inflight) : r.path # "grpc"
    /\ main' = [main EXCEPT !.grpc = "finished"]
    /\ UNCHANGED <<users, now, encoding_key, inflight, out, acked,
                   created, calls>>

\* axum::serve returns, with or without an error.
RestFinished ==
    /\ main.pc = "select"
    /\ main.rest = "serving"
    /\ main' = [main EXCEPT !.rest = "finished"]
    /\ UNCHANGED <<users, now, encoding_key, inflight, out, acked,
                   created, calls>>

\* select! completes and main returns; the runtime is shut down and the
\* requests still in progress are dropped with it.
SelectDone ==
    /\ main.pc = "select"
    /\ SelectReady(main)
    /\ main' = AfterSelect(main)
    /\ inflight' = EmptyBag
    /\ UNCHANGED <<users, now, encoding_key, out, acked,
                   created, calls>>

\* The tasks spawned for accepted connections run until the runtime is shut
\* down at the end of main().
RuntimeAlive == main.pc = "select"

\* A server of main() takes requests.
RestAccepting == main.pc = "select" /\ main.rest = "serving"

GrpcAccepting == main.pc = "select" /\ main.grpc = "serving"

\* The process from its first line: startup, the two servers main() mounts
\* taking requests while they serve (one request at a time, as in NextSeq),
\* the shutdown signal, the end of select!.
NextMain ==
    \/ ConnectDb
    \/ LoadKey
    \/ BindRest
    \/ EnterSelect
    \/ RestAccepting /\ inflight = EmptyBag /\ RestRegisterCheck
    \/ RestAccepting /\ inflight = EmptyBag /\ RestLoginCall
    \/ GrpcAccepting /\ inflight = EmptyBag /\ GrpcRegisterCall
    \/ GrpcAccepting /\ inflight = EmptyBag /\ GrpcLoginCall
    \/ RuntimeAlive /\ RestRegisterInsert
    \/ RuntimeAlive /\ RestRegisterAnswer
    \/ RuntimeAlive /\ RestLoginAnswer
    \/ RuntimeAlive /\ GrpcRegisterAnswer
    \/ RuntimeAlive /\ GrpcLoginAnswer
    \/ RuntimeAlive /\ DropRequest
    \/ ShutdownSignal
    \/ GrpcDrained
    \/ RestFinished
    \/ SelectDone

SpecMain == InitMain /\ [][NextMain]_vars

\* The runtime keeps polling its tasks: a gRPC call whose store call has
\* returned answers, a draining server with no call in progress finishes,
\* and a select! with a ready branch completes.
SpecMainFair ==
    /\ SpecMain
    /\ WF_vars(RuntimeAlive /\ GrpcRegisterAnswer)
    /\ WF_vars(RuntimeAlive /\ GrpcLoginAnswer)
    /\ WF_vars(GrpcDrained)
    /\ WF_vars(SelectDone)

(* ------------------------- vocabulary of the claims --------------------- *)

Paths == {"rest", "grpc", "handler"}

\* The outcome of the error taxonomy a response stands for, by its status.
Kind(resp) ==
    IF IsSuccess(resp) THEN "Success"
    ELSE IF resp.code \in {"CONFLICT", "AlreadyExists"} THEN "IdentityExists"
    ELSE IF resp.code \in {"UNAUTHORIZED", "Unauthenticated"}
    THEN "InvalidCredentials"
    ELSE IF resp.code \in {"INTERNAL_SERVER_ERROR", "Internal"}
    THEN "ServerError"
    ELSE "Other"

\* The raw Display texts of storage, hashing and signing errors.
RawErrorTexts ==
    {SqlxUniqueText, SqlxOtherText, PasswordHashParseText,
     PasswordHashCryptoText, JwtErrorText}

HasToken(resp) == resp.token # <<>>

TokenOf(resp) == resp.token[1]

\* e has a row.
Stored(e) == SelectByEmail(users, e) # <<>>

\* e has a row with a parsable hash that p does not match.
WrongPassword(e, p) ==
    /\ Stored(e)
    /\ ParseOk(LookupRow(users, e).password_hash)
    /\ ~VerifyPassword(p, LookupRow(users, e).password_hash)

\* Some Register(e, p) was answered with success.
Registered(e, p) == \E a \in acked : a.email = e /\ a.password = p

RegisteredEmail(e) == \E a \in acked : a.email = e

(* -------------------------------- C1 ------------------------------------ *)

\* C1 (as claimed): once Register(e, p) has succeeded, a later Login(e, p)
\* whose store lookup, expiration and signer do not fail succeeds with a
\* token whose subject is the email e.
C1_LoginAfterRegisterCarriesEmail ==
    (/\ out.op = "login"
     /\ Registered(out.email, out.password)
     /\ out.lookup # "Err"
     /\ out.expiry # "Err"
     /\ out.signer # "Err")
    => /\ Kind(out.resp) = "Success"
       /\ HasToken(out.resp)
       /\ TokenOf(out.resp).claims.sub = out.email

(* -------------------------------- C2 ------------------------------------ *)

\* C2: on each login path, with the store answering, a login with an email
\* that has no row and a login with a stored email and a wrong password get
\* the same response (status, message, body), and it is InvalidCredentials;
\* and the response last returned for either case is that response.
C2_WrongPasswordLikeUnknownEmail ==
    /\ \A path \in Paths, e1 \in Emails, e2 \in Emails,
          p1 \in Passwords, p2 \in Passwords :
          (~Stored(e1) /\ WrongPassword(e2, p2))
          => /\ Login(path, users, e1, p1, now, encoding_key, "none")
                = Login(path, users, e2, p2, now, encoding_key, "none")
             /\ Kind(Login(path, users, e1, p1, now, encoding_key, "none"))
                = "InvalidCredentials"
    /\ \A e2 \in Emails, p2 \in Passwords :
          (/\ out.op = "login"
           /\ out.lookup = "None" \/ (out.lookup = "Some"
                                      /\ WrongPassword(out.email, out.password))
           /\ WrongPassword(e2, p2))
          => out.resp = Login(out.path, users, e2, p2, now, encoding_key, "none")

\* C2's case: a wrong-password login was just answered while another email
\* has no row.
C2_Witness ==
    /\ out.op = "login"
    /\ out.lookup = "Some"
    /\ WrongPassword(out.email, out.password)
    /\ Kind(out.resp) = "InvalidCredentials"
    /\ \E e \in Emails : ~Stored(e)

(* -------------------------------- C3 ------------------------------------ *)

\* C3 (as claimed): in a sequential run, a Register for an email that an
\* earlier Register already registered, with no store or hasher failure of its
\* own, is answered IdentityExists; and the row of every acknowledged Register
\* is still the row that call stored.
C3_SecondRegisterIsConflict ==
    /\ (/\ out.op = "register"
        /\ RegisteredEmail(out.email)
        /\ Kind(out.resp) # "Success"
        /\ out.existing # "Err"
        /\ out.hasher # "Err"
        /\ out.insert # "Err")
       => Kind(out.resp) = "IdentityExists"
    /\ \A a \in acked : LookupRow(users, a.email) = a.row

(* -------------------------------- C4 ------------------------------------ *)

\* C4: the table holds at most one row per email, in every reachable state
\* of concurrent registers and logins on both transports.
C4_EmailUnique ==
    \A i \in DOMAIN users, j \in DOMAIN users :
        users[i].email = users[j].email => i = j

\* C4's case: a REST register that counted no row for its email lost the
\* race for it at its INSERT.
C4_Witness ==
    /\ out.op = "register"
    /\ out.path = "rest"
    /\ out.existing = "Zero"
    /\ out.insert = "Unique"
    /\ Stored(out.email)

(* -------------------------------- C5 ------------------------------------ *)

\* C5 (as claimed): a Register that found its email unregistered and then
\* lost the race for it (its INSERT met the uniqueness constraint) is
\* answered IdentityExists, never success or a server error.
C5_RaceLoserGetsConflict ==
    (/\ out.op = "register"
     /\ out.existing = "Zero"
     /\ out.insert = "Unique")
    => Kind(out.resp) = "IdentityExists"

(* -------------------------------- C6 ------------------------------------ *)

\* C6: a login that found the identity is answered with a server error and
\* no token when the stored hash does not parse, and with InvalidCredentials
\* when it parses and the password does not match; the same holds of login
\* on each of the three paths, run on the table as it is.
C6_BadHashIsInternalError ==
    /\ (out.op = "login" /\ out.lookup = "Some")
       => /\ ~ParseOk(LookupRow(users, out.email).password_hash)
             => (Kind(out.resp) = "ServerError" /\ ~HasToken(out.resp))
          /\ WrongPassword(out.email, out.password)
             => Kind(out.resp) = "InvalidCredentials"
    /\ \A path \in Paths, e \in Emails, p \in Passwords,
          f \in {"none", "time", "sign"} :
          /\ (Stored(e) /\ ~ParseOk(LookupRow(users, e).password_hash))
             => /\ Kind(Login(path, users, e, p, now, encoding_key, f))
                   = "ServerError"
                /\ ~HasToken(Login(path, users, e, p, now, encoding_key, f))
          /\ WrongPassword(e, p)
             => Kind(Login(path, users, e, p, now, encoding_key, f))
                = "InvalidCredentials"

\* C6's case: a login found a row whose hash does not parse.
C6_Witness ==
    /\ out.op = "login"
    /\ out.lookup = "Some"
    /\ ~ParseOk(LookupRow(users, out.email).password_hash)
    /\ Kind(out.resp) = "ServerError"

(* -------------------------------- C7 ------------------------------------ *)

\* C7 (as claimed): a Register one of whose store calls failed for another
\* reason than the uniqueness constraint is answered with a server error and
\* inserts nothing.
C7_StoreFailureFailsRegister ==
    (/\ out.op = "register"
     /\ out.existing = "Err" \/ out.insert = "Err")
    => /\ Kind(out.resp) = "ServerError"
       /\ out.insert # "Ok"

(* -------------------------------- C8 ------------------------------------ *)

\* C8 (as claimed): the token last issued expires one horizon after it was
\* issued, and every login path that issues a token now uses that same
\* horizon.
C8_OneExpirationHorizon ==
    HasToken(out.resp)
    => \A path \in Paths, e \in Emails, p \in Passwords :
          HasToken(Login(path, users, e, p, now, encoding_key, "none"))
          => TokenOf(Login(path, users, e, p, now, encoding_key, "none"))
                 .claims.exp - now
             = TokenOf(out.resp).claims.exp - out.at

(* -------------------------------- C9 ------------------------------------ *)

\* C9 (as claimed): AppState's key is the Ed25519 private key loaded at
\* startup, and every issued token is an EdDSA token signed with it.
C9_SignedWithProcessKey ==
    /\ encoding_key = EdPrivateKey
    /\ HasToken(out.resp)
       => /\ TokenOf(out.resp).alg = "EdDSA"
          /\ TokenOf(out.resp).signed_with = encoding_key

(* -------------------------------- C10 ----------------------------------- *)

\* C10 (as claimed): no response carries the raw text of a storage, hashing
\* or signing error, and no user in a response carries password_hash.
C10_NoInternalDetail ==
    /\ out.resp.message \notin RawErrorTexts
    /\ \A i \in DOMAIN out.resp.user :
          "password_hash" \notin DOMAIN out.resp.user[i]

(* -------------------------------- C11 ----------------------------------- *)

\* C11 (as claimed): the table changes only by a successful Register: every
\* stored row that the process did not find at startup is the row of a
\* Register that was answered with success, or that has inserted it and is
\* about to answer.
C11_RowsOnlyOfSuccessfulRegisters ==
    \A i \in DOMAIN users :
        \/ users[i] = DamagedRow
        \/ \E a \in acked : a.row = users[i]
        \/ \E r \in BagToSet(inflight) :
              r.op = "register" /\ r.rows = <<users[i]>>

\* C11 (amended): a step that changes the users table is the INSERT of a
\* Register call, left in flight to answer; it appends exactly one row, the
\* row of that call's email, and leaves every earlier row as it was.  A
\* Register is answered with success exactly when its INSERT added a row,
\* and no answer, of a Register or of a Login, changes the table.
C11_OnlyRegisterInsertAddsOneRow ==
    /\ [][users' # users
          => /\ Len(users') = Len(users) + 1
             /\ SubSeq(users', 1, Len(users)) = users
             /\ out' = out
             /\ \E r \in BagToSet(inflight') :
                   /\ r \notin BagToSet(inflight)
                   /\ r.op = "register"
                   /\ r.insert = "Ok"
                   /\ r.email = users'[Len(users')].email
                   /\ r.rows = <<users'[Len(users')]>>]_vars
    /\ [][(out' # out /\ out'.op = "register")
          => (IsSuccess(out'.resp) <=> out'.insert = "Ok")]_vars

\* C11's case: a Register was refused at its INSERT by the uniqueness
\* constraint and the row an earlier Register added for that email is as
\* that call stored it.
C11_Witness ==
    /\ out.op = "register"
    /\ ~IsSuccess(out.resp)
    /\ out.insert = "Unique"
    /\ \E c \in created :
          c.email = out.email /\ LookupRow(users, c.email) = c.row

(* -------------------------------- C12 ----------------------------------- *)

\* The claims of the token a response carries, <<>> when it carries none.
ClaimsOf(resp) == IF HasToken(resp) THEN <<TokenOf(resp).claims>> ELSE <<>>

\* C12 (as claimed): from the same table, at the same time and with the same
\* failure, the REST and the gRPC binding answer a Login with the same kind
\* of outcome and the same token claims, and a Register with the same kind
\* of outcome and the same resulting table; stated for the emails this
\* program has registered.
C12_RestAndGrpcAgree ==
    \A a \in acked, p \in Passwords :
        /\ \A f \in {"none", "db", "time", "sign"} :
             /\ Kind(RestLogin(users, a.email, p, now, encoding_key, f))
                  = Kind(GrpcLogin(users, a.email, p, now, encoding_key, f))
             /\ ClaimsOf(RestLogin(users, a.email, p, now, encoding_key, f))
                  = ClaimsOf(GrpcLogin(users, a.email, p, now, encoding_key, f))
        /\ \A f \in {"none", "db", "hash"}, salt \in Salts :
             /\ Kind(RestRegister(users, a.email, f))
                  = Kind(GrpcRegister(users, a.email, f))
             /\ RestStoreAfterRegister(users, a.email,
                                       HashToString(p, salt), now, f)
                  = StoreAfterRegister(users, a.email,
                                       HashToString(p, salt), now, f)

(* -------------------------------- C13 ----------------------------------- *)

\* C13 (as claimed): every Register and Login ends by returning a value, a
\* success or an error of the taxonomy, whatever fails on the way; none ends
\* in a panic.
C13_NoHandlerPanics ==
    out.op # "none"
    => /\ out.resp.code # "panic"
       /\ Kind(out.resp) \in
            {"Success", "IdentityExists", "InvalidCredentials", "ServerError"}

(* -------------------------------- C15 ----------------------------------- *)

\* C15: a response carries a token only if it answers a Login(e, p) that
\* found a row for e, the row is stored, its hash parses and matches p, and
\* the row was added by a Register call that was given p; and login on each
\* of the three paths, run on the table as it is, returns a token only for
\* an email and a password of such a row, whatever fails.
C15_TokenOnlyAfterAuthentication ==
    /\ HasToken(out.resp)
       => /\ out.op = "login"
          /\ out.lookup = "Some"
          /\ Stored(out.email)
          /\ ParseOk(LookupRow(users, out.email).password_hash)
          /\ VerifyPassword(out.password,
                            LookupRow(users, out.email).password_hash)
          /\ \E c \in created : /\ c.email = out.email
                                /\ c.password = out.password
                                /\ c.row = LookupRow(users, out.email)
    /\ \A path \in Paths, e \in Emails, p \in Passwords,
          f \in {"none", "db", "time", "sign"} :
          HasToken(Login(path, users, e, p, now, encoding_key, f))
          => /\ Stored(e)
             /\ \E c \in created : /\ c.email = e
                                   /\ c.password = p
                                   /\ c.row = LookupRow(users, e)

\* C15's case: a login was answered with a token before the Register that
\* added its row was answered, while another password of that email would
\* be refused.
C15_Witness ==
    /\ HasToken(out.resp)
    /\ out.op = "login"
    /\ ~RegisteredEmail(out.email)
    /\ \E p \in Passwords : WrongPassword(out.email, p)

(* -------------------------------- C16 ----------------------------------- *)

\* C16 (as claimed): a Register whose hasher did not fail, and every Login,
\* awaits exactly one store call.
C16_OneStoreRoundTrip ==
    (out.op # "none" /\ out.hasher # "Err") => out.trips = 1

(* -------------------------------- C14 ----------------------------------- *)

\* C14: a listener is bound, a server serves or a request has been answered
\* only if the pool was connected and the signing key loaded; when either
\* failed, the process has ended with nothing bound, nothing started and no
\* request answered.
C14_NoServingWithoutPoolAndKey ==
    /\ (\/ main.rest # "unbound"
        \/ main.grpc # "unbuilt"
        \/ out.op # "none"
        \/ inflight # EmptyBag)
       => (main.db = "pool" /\ encoding_key = EdPrivateKey)
    /\ (main.db # "pool" \/ encoding_key # EdPrivateKey)
       => (main.pc \in {"connect", "load_key", "panicked"}
           /\ main.rest = "unbound" /\ main.grpc = "unbuilt")

\* C14's case: the pool connected, the key failed to load, and the process
\* ended.
C14_Witness ==
    /\ main.pc = "panicked"
    /\ main.db = "pool"
    /\ encoding_key = NoKey

(* -------------------------------- C17 ----------------------------------- *)

\* C17: the shutdown signal stops the gRPC server and leaves the REST server
\* as it is; once a signal was seen, or once either server has finished,
\* main eventually returns; and once main has returned no server serves and
\* no request is in progress.
C17_FirstFinishedEndsProcess ==
    /\ [][(main'.signal /\ ~main.signal)
          => (main'.grpc = "draining" /\ main'.rest = main.rest)]_vars
    /\ (main.signal ~> main.pc = "returned")
    /\ ((main.pc = "select" /\ SelectReady(main)) ~> main.pc = "returned")
    /\ [](main.pc = "returned"
          => /\ main.rest \notin {"bound", "serving"}
             /\ main.grpc \notin {"serving", "draining"}
             /\ inflight = EmptyBag)
    /\ [][main.pc = "returned" => UNCHANGED vars]_vars

\* C17's case: after a shutdown signal the gRPC server finished, main
\* returned, and the REST server, still serving until then, was dropped.
C17_Witness ==
    /\ main.signal
    /\ main.pc = "returned"
    /\ main.grpc = "finished"
    /\ main.rest = "dropped"

====
